---- MODULE Spec2Model ----
(***************************************************************************)
(* Conferencia de Notas Fiscais (src/app.py): key normalisation of the two *)
(* sources, the cancellation classifier, the cached SQL fetch, the         *)
(* processing block run on a button click, and the session-held result     *)
(* read by the dashboard.                                                  *)
(*                                                                         *)
(* Text is a sequence of one-character strings.  A cell of a DataFrame is  *)
(* a record [na, txt]: na is what pd.isna answers, txt is str(cell).       *)
(***************************************************************************)
EXTENDS Integers, Sequences, FiniteSets, TLC

VARIABLES valor, resultado, session_state, cache, agora, exec

vars == <<valor, resultado, session_state, cache, agora, exec>>

(***************************************************************************)
(* Bounds of the model.                                                    *)
(***************************************************************************)
MaxLenSql == 6
MaxLenExcel == 5
MaxLinhas == 2
MaxRegistros == 2
MaxTempo == 300
Passo == 150

(***************************************************************************)
(* Python text primitives used by the two extractors.                      *)
(***************************************************************************)
Digitos == {"0", "1", "2", "3", "4", "5", "6", "7", "8", "9"}
Sinais == {"-", "+"}
Espacos == {" "}

DigitVal(c) ==
    CASE c = "0" -> 0 [] c = "1" -> 1 [] c = "2" -> 2 [] c = "3" -> 3
      [] c = "4" -> 4 [] c = "5" -> 5 [] c = "6" -> 6 [] c = "7" -> 7
      [] c = "8" -> 8 [] c = "9" -> 9

\* value of a run of decimal digits, most significant first (0 for the empty run)
RECURSIVE DecVal(_)
DecVal(s) ==
    IF s = <<>> THEN 0
    ELSE 10 * DecVal(SubSeq(s, 1, Len(s) - 1)) + DigitVal(s[Len(s)])

RECURSIVE lstrip(_)
lstrip(s) == IF s # <<>> /\ Head(s) \in Espacos THEN lstrip(Tail(s)) ELSE s

RECURSIVE rstrip(_)
rstrip(s) ==
    IF s # <<>> /\ s[Len(s)] \in Espacos THEN rstrip(SubSeq(s, 1, Len(s) - 1)) ELSE s

\* str.strip()
strip(s) == rstrip(lstrip(s))

\* str.isdigit(): non-empty and every character a digit
isdigit(s) == s # <<>> /\ \A i \in 1..Len(s) : s[i] \in Digitos

\* x in s, for a single character x
Contem(s, x) == \E i \in 1..Len(s) : s[i] = x

\* s.split(x): the segments between the occurrences of x, all of them
RECURSIVE split(_, _)
split(s, x) ==
    IF ~Contem(s, x) THEN <<s>>
    ELSE LET i == CHOOSE k \in 1..Len(s) : s[k] = x /\ \A j \in 1..(k - 1) : s[j] # x
         IN  <<SubSeq(s, 1, i - 1)>> \o split(SubSeq(s, i + 1, Len(s)), x)

Falha == [ok |-> FALSE, val |-> 0]
Valor(n) == [ok |-> TRUE, val |-> n]

\* int(text): surrounding whitespace ignored, an optional sign, then digits;
\* anything else raises ValueError (ok = FALSE)
PyInt(s) ==
    LET t == strip(s)
        neg == t # <<>> /\ t[1] = "-"
        corpo == IF t # <<>> /\ t[1] \in Sinais THEN Tail(t) ELSE t
    IN  IF isdigit(corpo)
        THEN Valor(IF neg THEN 0 - DecVal(corpo) ELSE DecVal(corpo))
        ELSE Falha

\* int(float(text)): an optional sign, digits with at most one point and a
\* digit on at least one side of it; int() then drops the fraction (towards 0)
PyIntFloat(s) ==
    LET t == strip(s)
        neg == t # <<>> /\ t[1] = "-"
        corpo == IF t # <<>> /\ t[1] \in Sinais THEN Tail(t) ELSE t
        partes == split(corpo, ".")
        inteira == partes[1]
        fracao == IF Len(partes) = 2 THEN partes[2] ELSE <<>>
        bem_formado ==
            /\ Len(partes) <= 2
            /\ inteira \o fracao # <<>>
            /\ \A i \in 1..Len(inteira) : inteira[i] \in Digitos
            /\ \A i \in 1..Len(fracao) : fracao[i] \in Digitos
    IN  IF bem_formado
        THEN Valor(IF neg THEN 0 - DecVal(inteira) ELSE DecVal(inteira))
        ELSE Falha

(***************************************************************************)
(* 2. FUNCOES (logica de negocio)                                          *)
(***************************************************************************)
NA == [na |-> TRUE, txt |-> <<>>]
Txt(s) == [na |-> FALSE, txt |-> s]

extrair_sem_isdigit(v) ==
    LET s_val == strip(v.txt)
        r == IF Len(s_val) > 4 THEN PyInt(SubSeq(s_val, 5, Len(s_val))) ELSE PyInt(s_val)
    IN  IF r.ok THEN r.val ELSE 0

\* def extrair_numero_nota_sql(valor)
extrair_numero_nota_sql(v) ==
    LET s_val == strip(v.txt)
        r == IF Len(s_val) > 4 /\ isdigit(s_val)
             THEN PyInt(SubSeq(s_val, 5, Len(s_val)))
             ELSE PyInt(s_val)
    IN  IF r.ok THEN r.val ELSE 0

extrair_excel_sem_float(v) ==
    IF v.na THEN 0
    ELSE LET s_val == strip(v.txt)
             r == IF Contem(s_val, "/") THEN PyInt(split(s_val, "/")[2]) ELSE PyInt(s_val)
         IN  IF r.ok THEN r.val ELSE 0

\* def extrair_numero_nota_excel(valor)
extrair_numero_nota_excel(v) ==
    IF v.na THEN 0
    ELSE LET s_val == strip(v.txt)
             r == IF Contem(s_val, "/")
                  THEN PyInt(split(s_val, "/")[2])
                  ELSE PyIntFloat(s_val)
         IN  IF r.ok THEN r.val ELSE 0

Upper(c) ==
    CASE c = "a" -> "A" [] c = "c" -> "C" [] c = "e" -> "E" [] c = "l" -> "L"
      [] c = "n" -> "N" [] c = "o" -> "O" [] c = "k" -> "K" [] OTHER -> c

\* str.upper()
upper(s) == [i \in 1..Len(s) |-> Upper(s[i])]

\* p in s, for texts
ContemTexto(s, p) ==
    \E i \in 1..(Len(s) - Len(p) + 1) : SubSeq(s, i, i + Len(p) - 1) = p

CANCEL == <<"C", "A", "N", "C", "E", "L">>

\* def verificar_cancelamento_excel(valor)
verificar_cancelamento_excel(v) ==
    IF v.na THEN FALSE ELSE ContemTexto(upper(v.txt), CANCEL)

(***************************************************************************)
(* DataFrames: [cols, rows], each row a function from the column names to  *)
(* its cells.                                                              *)
(***************************************************************************)
DataFrame(colunas) == [cols |-> colunas, rows |-> <<>>]

\* df.empty
empty(df) == df.cols = {} \/ df.rows = <<>>

\* df[nome] = f(row), for every row
ComColuna(df, nome, f(_)) ==
    [cols |-> df.cols \cup {nome},
     rows |-> [i \in 1..Len(df.rows) |->
                 [c \in df.cols \cup {nome} |->
                     IF c = nome THEN f(df.rows[i]) ELSE df.rows[i][c]]]]

\* df[df apply Test]
Filtrar(df, Test(_)) == [cols |-> df.cols, rows |-> SelectSeq(df.rows, Test)]

\* df[[colunas]], defined only when every column exists (KeyError otherwise)
Projetar(df, colunas) ==
    [cols |-> colunas,
     rows |-> [i \in 1..Len(df.rows) |-> [c \in colunas |-> df.rows[i][c]]]]

\* set(df[nome])
Conjunto(df, nome) == {df.rows[i][nome] : i \in 1..Len(df.rows)}

\* the rows of pd.merge(left, right, on=nome, how='inner'): every left row with
\* every right row of the same key, in the order of the left rows
RECURSIVE JuntarLinha(_, _, _)
JuntarLinha(l, direita, nome) ==
    IF direita = <<>> THEN <<>>
    ELSE LET r == Head(direita)
             junto == [c \in DOMAIN l \cup DOMAIN r |-> IF c \in DOMAIN l THEN l[c] ELSE r[c]]
         IN  (IF l[nome] = r[nome] THEN <<junto>> ELSE <<>>)
                 \o JuntarLinha(l, Tail(direita), nome)

RECURSIVE JuntarLinhas(_, _, _)
JuntarLinhas(esquerda, direita, nome) ==
    IF esquerda = <<>> THEN <<>>
    ELSE JuntarLinha(Head(esquerda), direita, nome)
             \o JuntarLinhas(Tail(esquerda), direita, nome)

merge(left, right, nome) ==
    [cols |-> left.cols \cup right.cols, rows |-> JuntarLinhas(left.rows, right.rows, nome)]

(***************************************************************************)
(* Column names.                                                           *)
(***************************************************************************)
N_NF == "No NF"
DATA_NF == "DATA NF"
col_receb == "DATA DE RECEBIMENTO"
VALOR_NF == "VALOR NF"

\* the columns the query of st.secrets returns (the RawDbRecord fields)
ColunasSql == {"NumNfAux_nf", "Status_nf", "Nome_pes", "ValorTotNota_nf"}

\* the freshness window of st.cache_data, in seconds
ttl == 300

(***************************************************************************)
(* buscar_dados_sql.  resp is what the outside world answers to this call: *)
(* "secrets" (st.secrets lacks an entry), "format" (the query template     *)
(* does not format), "conexao" (pyodbc.connect or pd.read_sql raises) or   *)
(* "ok" with the rows read.                                                *)
(***************************************************************************)
\* the body of buscar_dados_sql: the DataFrame returned and the number of
\* pyodbc.connect calls made
buscar_dados_sql(resp) ==
    CASE resp.tipo = "secrets" -> [df |-> DataFrame({}), tentativas |-> 0]
      [] resp.tipo = "format"  -> [df |-> DataFrame({}), tentativas |-> 0]
      [] resp.tipo = "conexao" -> [df |-> DataFrame({}), tentativas |-> 1]
      [] resp.tipo = "ok"      -> [df |-> resp.df, tentativas |-> 1]

Guardar(f, k, v) == [x \in DOMAIN f \cup {k} |-> IF x = k THEN v ELSE f[x]]

\* whether the cache holds a fresh entry for these arguments at time t
NoCache(c, t, chave) == chave \in DOMAIN c /\ t - c[chave].em < ttl

cache_so_de_sucesso(c, t, chave, resp) ==
    IF NoCache(c, t, chave)
    THEN [df |-> c[chave].df, tentativas |-> 0, origem |-> "cache", cache |-> c]
    ELSE LET r == buscar_dados_sql(resp)
         IN  [df |-> r.df, tentativas |-> r.tentativas, origem |-> resp.tipo,
              cache |-> IF resp.tipo = "ok"
                        THEN Guardar(c, chave, [df |-> r.df, em |-> t]) ELSE c]

\* @st.cache_data(ttl=300) around buscar_dados_sql: the stored return value
\* while it is fresh, the body otherwise, whose return value is then stored
cache_data(c, t, chave, resp) ==
    IF NoCache(c, t, chave)
    THEN [df |-> c[chave].df, tentativas |-> 0, origem |-> "cache", cache |-> c]
    ELSE LET r == buscar_dados_sql(resp)
         IN  [df |-> r.df, tentativas |-> r.tentativas, origem |-> resp.tipo,
              cache |-> Guardar(c, chave, [df |-> r.df, em |-> t])]

(***************************************************************************)
(* 4. PROCESSAMENTO                                                        *)
(***************************************************************************)
NaT == [nat |-> TRUE, dia |-> 0]

\* pd.to_datetime(cell, errors='coerce')
to_datetime(cell) == IF cell.valida THEN [nat |-> FALSE, dia |-> cell.dia] ELSE NaT

filtro_sem_limite_final(df, dt_inicio, dt_fim) ==
    IF DATA_NF \in df.cols
    THEN LET noPeriodo(row) ==
                 LET d == to_datetime(row[DATA_NF]) IN ~d.nat /\ d.dia >= dt_inicio /\ d.dia < dt_fim
         IN  Filtrar(df, noPeriodo)
    ELSE df

\* lines 146-151: the rows whose DATA NF is a date of the period
filtro_data_nf(df, dt_inicio, dt_fim) ==
    IF DATA_NF \in df.cols
    THEN LET noPeriodo(row) ==
                 LET d == to_datetime(row[DATA_NF]) IN ~d.nat /\ d.dia >= dt_inicio /\ d.dia <= dt_fim
         IN  Filtrar(df, noPeriodo)
    ELSE df

\* lines 160-164
tratar_sql(df_sql) ==
    IF ~empty(df_sql)
    THEN LET chave(row) == extrair_numero_nota_sql(row["NumNfAux_nf"])
             cancelado(row) == row["Status_nf"] = 1
         IN  ComColuna(ComColuna(df_sql, "CHAVE", chave), "CANCELADO_SISTEMA", cancelado)
    ELSE DataFrame({"CHAVE", "NumNfAux_nf", "Status_nf", "CANCELADO_SISTEMA"})

\* lines 171-173
tratar_excel(df_excel) ==
    LET chave(row) == extrair_numero_nota_excel(row[N_NF])
        cancelado(row) ==
            IF col_receb \in df_excel.cols
            THEN verificar_cancelamento_excel(row[col_receb]) ELSE FALSE
    IN  ComColuna(ComColuna(df_excel, "CHAVE", chave), "CANCELADO_PLANILHA", cancelado)

ColunasMergeSql == {"CHAVE", "NumNfAux_nf", "CANCELADO_SISTEMA", "Nome_pes", "ValorTotNota_nf"}
ColunasMergeExcel == {"CHAVE", N_NF, "CANCELADO_PLANILHA", VALOR_NF}

diferenca_trocada(a, b) == b \ a

\* lines 179-180: a - b
diferenca(a, b) == a \ b

status_iguais(df_comum) ==
    LET igual(row) == row["CANCELADO_SISTEMA"] = row["CANCELADO_PLANILHA"]
    IN  Filtrar(df_comum, igual)

\* line 187
status_errado(df_comum) ==
    LET diverge(row) == row["CANCELADO_SISTEMA"] # row["CANCELADO_PLANILHA"]
    IN  Filtrar(df_comum, diverge)

\* st.session_state.get(k)
get(ss, k) == IF k \in DOMAIN ss THEN ss[k] ELSE FALSE

\* len(s) > 0 guards of lines 194-195
faltas(df, chaves) ==
    IF Cardinality(chaves) > 0
    THEN LET falta(row) == row["CHAVE"] \in chaves IN Filtrar(df, falta)
    ELSE DataFrame({})

salvar_sem_contagem(ss, df_sql, df_excel, so_no_sistema, so_na_planilha, df_status_errado) ==
    LET s1 == Guardar(ss, "resultado_pronto", TRUE)
        s2 == Guardar(s1, "df_status_errado", df_status_errado)
        s3 == Guardar(s2, "df_falta_uau", faltas(df_excel, so_na_planilha))
        s4 == Guardar(s3, "df_falta_planilha", faltas(df_sql, so_no_sistema))
        s5 == Guardar(s4, "count_sistema", Cardinality(so_no_sistema))
        s6 == Guardar(s5, "count_planilha", Cardinality(so_na_planilha))
    IN  IF "count_errado" \in DOMAIN ss THEN s6 ELSE Guardar(s6, "count_errado", 0)

\* lines 190-200: the seven entries of st.session_state
salvar(ss, df_sql, df_excel, so_no_sistema, so_na_planilha, df_status_errado) ==
    LET s1 == Guardar(ss, "resultado_pronto", TRUE)
        s2 == Guardar(s1, "df_status_errado", df_status_errado)
        s3 == Guardar(s2, "df_falta_uau", faltas(df_excel, so_na_planilha))
        s4 == Guardar(s3, "df_falta_planilha", faltas(df_sql, so_no_sistema))
        s5 == Guardar(s4, "count_sistema", Cardinality(so_no_sistema))
        s6 == Guardar(s5, "count_planilha", Cardinality(so_na_planilha))
    IN  Guardar(s6, "count_errado", Len(df_status_errado.rows))

\* the locals of a script execution before anything ran
Locais(ent) ==
    [fim |-> "inicio", ent |-> ent, origem |-> "nenhuma", tentativas |-> 0,
     df_busca |-> DataFrame({}), df_sql |-> DataFrame({}), df_excel |-> DataFrame({}),
     chaves_sistema |-> {}, chaves_planilha |-> {},
     so_no_sistema |-> {}, so_na_planilha |-> {},
     df_status_errado |-> DataFrame({}), dashboard |-> FALSE]

\* lines 209-263: the dashboard is drawn when the script reaches it and the
\* session holds a result
Dashboard(ss) == get(ss, "resultado_pronto")

sem_coluna_sem_parar(ss, loc, df_sql, df_lido) ==
    [ss |-> Guardar(ss, "resultado_pronto", TRUE),
     loc |-> [loc EXCEPT !.fim = "sem_coluna", !.df_sql = df_sql, !.df_excel = df_lido,
                         !.dashboard = TRUE]]

\* lines 166-169: 'No NF' is not a column of the sheet, st.error and st.stop()
sem_coluna(ss, loc, df_sql, df_lido) ==
    [ss |-> ss,
     loc |-> [loc EXCEPT !.fim = "sem_coluna", !.df_sql = df_sql, !.df_excel = df_lido]]

\* lines 176-202: the key sets, the comparison and the session writes
comparar(ss, loc, df_sql, df_excel) ==
    LET chaves_sistema == IF ~empty(df_sql) THEN Conjunto(df_sql, "CHAVE") ELSE {}
        chaves_planilha == Conjunto(df_excel, "CHAVE")
        so_no_sistema == diferenca(chaves_sistema, chaves_planilha)
        so_na_planilha == diferenca(chaves_planilha, chaves_sistema)
        loc2 == [loc EXCEPT !.df_sql = df_sql, !.df_excel = df_excel,
                            !.chaves_sistema = chaves_sistema,
                            !.chaves_planilha = chaves_planilha,
                            !.so_no_sistema = so_no_sistema,
                            !.so_na_planilha = so_na_planilha]
    IN  IF ~(ColunasMergeSql \subseteq df_sql.cols /\ ColunasMergeExcel \subseteq df_excel.cols)
        THEN \* lines 182-186: a column list names a missing column, KeyError:
             \* the script ends there
             [ss |-> ss, loc |-> [loc2 EXCEPT !.fim = "KeyError"]]
        ELSE LET df_comum == merge(Projetar(df_sql, ColunasMergeSql),
                                   Projetar(df_excel, ColunasMergeExcel), "CHAVE")
                 df_status_errado == status_errado(df_comum)
                 ss2 == salvar(ss, df_sql, df_excel, so_no_sistema, so_na_planilha,
                               df_status_errado)
             IN  [ss |-> ss2,
                  loc |-> [loc2 EXCEPT !.fim = "concluido",
                                       !.df_status_errado = df_status_errado,
                                       !.dashboard = Dashboard(ss2)]]

\* lines 166-202, once the sheet is read
cruzar(ss, loc, df_sql, df_lido) ==
    IF N_NF \notin df_lido.cols
    THEN sem_coluna(ss, loc, df_sql, df_lido)
    ELSE comparar(ss, loc, df_sql, tratar_excel(df_lido))

\* one execution of the script, lines 126-263: the new session state, cache
\* and locals.  ent are the widget values, resp the outside world's answer
\* to a fetch, should one be made.
Script(ss, c, t, ent, resp) ==
    LET loc == Locais(ent) IN
    IF ~ent.btn_run
    THEN [ss |-> ss, cache |-> c,
          loc |-> [loc EXCEPT !.fim = "sem_clique", !.dashboard = Dashboard(ss)]]
    ELSE IF ~ent.uploaded_file.presente
    THEN [ss |-> ss, cache |-> c,
          loc |-> [loc EXCEPT !.fim = "sem_arquivo", !.dashboard = Dashboard(ss)]]
    ELSE LET b == cache_data(c, t, <<ent.dt_inicio, ent.dt_fim, ent.empresa_id,
                                      ent.todas_empresas>>, resp)
             loc1 == [loc EXCEPT !.origem = b.origem, !.tentativas = b.tentativas,
                                 !.df_busca = b.df]
         IN  IF ~ent.uploaded_file.legivel
             THEN \* lines 152-155: st.stop()
                  [ss |-> ss, cache |-> b.cache, loc |-> [loc1 EXCEPT !.fim = "erro_leitura"]]
             ELSE LET df_lido == filtro_data_nf(ent.uploaded_file.df, ent.dt_inicio, ent.dt_fim)
                      r == cruzar(ss, loc1, tratar_sql(b.df), df_lido)
                  IN  [ss |-> r.ss, cache |-> b.cache, loc |-> r.loc]

(***************************************************************************)
(* Inputs.                                                                 *)
(***************************************************************************)
Textos(alfabeto, n) == UNION {[1..k -> alfabeto] : k \in 0..n}
Sequencias(S, n) == UNION {[1..k -> S] : k \in 0..n}

\* cells of the sheet's columns
CelulasNf == {Txt(<<"1">>), Txt(<<"0", "/", "2">>)}
CelulasData == {[valida |-> FALSE, dia |-> 0]} \cup {[valida |-> TRUE, dia |-> d] : d \in 1..3}
CelulasReceb == {NA, Txt(<<"C", "a", "n", "c", "e", "l">>)}

ColunasPlanilha == {N_NF, DATA_NF, col_receb, VALOR_NF}

LinhasPlanilha(colunas, Nf, Data, Receb) ==
    {[c \in colunas |-> CASE c = N_NF -> nf [] c = DATA_NF -> d
                          [] c = col_receb -> r [] c = VALOR_NF -> 0] :
        <<nf, d, r>> \in Nf \X Data \X Receb}

SemArquivo == [presente |-> FALSE, legivel |-> FALSE, df |-> DataFrame({})]
Ilegivel == [presente |-> TRUE, legivel |-> FALSE, df |-> DataFrame({})]
Arquivo(df) == [presente |-> TRUE, legivel |-> TRUE, df |-> df]

\* rows the query returns
LinhasSql(Num, Status) ==
    {[c \in ColunasSql |-> CASE c = "NumNfAux_nf" -> num [] c = "Status_nf" -> st
                             [] c = "Nome_pes" -> "p" [] c = "ValorTotNota_nf" -> 0] :
        <<num, st>> \in Num \X Status}

Respostas(Linhas, n) ==
    {[tipo |-> tp, df |-> DataFrame({})] : tp \in {"secrets", "format", "conexao"}}
        \cup {[tipo |-> "ok", df |-> [cols |-> ColunasSql, rows |-> rows]] :
                 rows \in Sequencias(Linhas, n)}

\* one full execution: any sheet of up to MaxLinhas rows against any answer of
\* up to MaxRegistros rows
ColunasExecucao ==
    {{N_NF} \cup opcionais : opcionais \in SUBSET (ColunasPlanilha \ {N_NF})}
        \cup {ColunasPlanilha \ {N_NF}}
LinhasSqlExecucao ==
    LinhasSql({Txt(<<"0", "0", "0", "0", "1">>)}, {0, 1}) \cup LinhasSql({Txt(<<"3">>)}, {0})
RespostasExecucao == Respostas(LinhasSqlExecucao, MaxRegistros)

\* a session: a few files and answers, two cache keys
PlanilhaX ==
    [cols |-> ColunasPlanilha,
     rows |-> <<[c \in ColunasPlanilha |->
                   CASE c = N_NF -> Txt(<<"1">>) [] c = DATA_NF -> [valida |-> TRUE, dia |-> 2]
                     [] c = col_receb -> NA [] c = VALOR_NF -> 0]>>]
PlanilhaSemNf ==
    [cols |-> ColunasPlanilha \ {N_NF},
     rows |-> <<[c \in ColunasPlanilha \ {N_NF} |->
                   CASE c = DATA_NF -> [valida |-> TRUE, dia |-> 2]
                     [] c = col_receb -> NA [] c = VALOR_NF -> 0]>>]
ArquivosSessao == {SemArquivo, Ilegivel, Arquivo(PlanilhaX), Arquivo(PlanilhaSemNf)}
RespostasSessao ==
    {[tipo |-> "conexao", df |-> DataFrame({})]}
        \cup {[tipo |-> "ok", df |-> [cols |-> ColunasSql, rows |-> <<l>>]] :
                 l \in LinhasSql({Txt(<<"0", "0", "0", "0", "1">>), Txt(<<"3">>)}, {1})}
Empresas == {1, 2}

\* the widgets before the user touched them (the period is 2..2)
EntradaInicial ==
    [btn_run |-> FALSE, uploaded_file |-> SemArquivo, dt_inicio |-> 2, dt_fim |-> 2,
     empresa_id |-> 1, todas_empresas |-> FALSE]

\* the answer handed to an execution that makes no fetch
SemResposta == [tipo |-> "secrets", df |-> DataFrame({})]

(***************************************************************************)
(* The session: script executions and the passing of time.                 *)
(***************************************************************************)
Init ==
    /\ valor = NA
    /\ resultado = <<>>
    /\ session_state = <<>>
    /\ cache = <<>>
    /\ agora = 0
    /\ exec = Locais(EntradaInicial)

Rodar(ent, resp) ==
    \E r \in {Script(session_state, cache, agora, ent, resp)} :
        /\ session_state' = r.ss
        /\ cache' = r.cache
        /\ exec' = r.loc
        /\ UNCHANGED <<valor, resultado, agora>>

\* exec.ent holds the widgets: every change of a widget reruns the script
\* with btn_run False, a click on INICIAR CONFERENCIA reruns it with
\* btn_run True and the widgets as they are.
Anexar ==
    \E f \in ArquivosSessao :
        Rodar([exec.ent EXCEPT !.btn_run = FALSE, !.uploaded_file = f], SemResposta)

MudarEmpresa ==
    \E e \in Empresas :
        Rodar([exec.ent EXCEPT !.btn_run = FALSE, !.empresa_id = e], SemResposta)

Clicar == \E resp \in RespostasSessao : Rodar([exec.ent EXCEPT !.btn_run = TRUE], resp)

Passar ==
    /\ agora + Passo <= MaxTempo
    /\ agora' = agora + Passo
    /\ UNCHANGED <<valor, resultado, session_state, cache, exec>>

Next == Anexar \/ MudarEmpresa \/ Clicar \/ Passar

Spec == Init /\ [][Next]_vars

\* a single click in a fresh session, over the wide inputs
AnexarPlanilha ==
    /\ exec.fim = "inicio"
    /\ \/ \E f \in {SemArquivo, Ilegivel} :
             Rodar([exec.ent EXCEPT !.uploaded_file = f], SemResposta)
       \/ \E colunas \in ColunasExecucao, n \in 0..MaxLinhas :
             \E rows \in [1..n -> LinhasPlanilha(colunas, CelulasNf, CelulasData, CelulasReceb)] :
                 Rodar([exec.ent EXCEPT !.uploaded_file =
                            Arquivo([cols |-> colunas, rows |-> rows])], SemResposta)

ClicarUmaVez ==
    /\ exec.fim = "sem_clique"
    /\ \E resp \in RespostasExecucao : Rodar([exec.ent EXCEPT !.btn_run = TRUE], resp)

NextExecucao == AnexarPlanilha \/ ClicarUmaVez

SpecExecucao == Init /\ [][NextExecucao]_vars

(***************************************************************************)
(* The two extractors on their own: valor is the argument, resultado the   *)
(* value returned (empty before the call).                                 *)
(***************************************************************************)
AlfabetoSql == {"0", "1", " ", "-", "+", "a"}
ExemplosSql == {<<"1", "2", "3", "4", "5", "6", "7", "8">>, <<"9", "9", "9", "9">>}

AlfabetoExcel == {"0", "1", "2", "/", ".", " ", "-", "a"}
ExemplosExcel ==
    {<<"0", "0", "1", "/", "4", "5", "3", "2">>, <<"4", "5", "3", "2", ".", "0">>}

InitFuncao(Argumentos) ==
    /\ valor \in Argumentos
    /\ resultado = <<>>
    /\ session_state = <<>>
    /\ cache = <<>>
    /\ agora = 0
    /\ exec = Locais(EntradaInicial)

InitSql == InitFuncao({Txt(s) : s \in Textos(AlfabetoSql, MaxLenSql) \cup ExemplosSql})

ChamarSql ==
    /\ resultado = <<>>
    /\ resultado' = <<extrair_numero_nota_sql(valor)>>
    /\ UNCHANGED <<valor, session_state, cache, agora, exec>>

SpecSql == InitSql /\ [][ChamarSql]_vars

InitExcel ==
    InitFuncao({NA} \cup {Txt(s) : s \in Textos(AlfabetoExcel, MaxLenExcel) \cup ExemplosExcel})

ChamarExcel ==
    /\ resultado = <<>>
    /\ resultado' = <<extrair_numero_nota_excel(valor)>>
    /\ UNCHANGED <<valor, session_state, cache, agora, exec>>

SpecExcel == InitExcel /\ [][ChamarExcel]_vars

(***************************************************************************)
(* Properties of the extractors.                                           *)
(***************************************************************************)
\* an optional sign and then one digit or more
Numeral(t) == isdigit(IF t # <<>> /\ t[1] \in Sinais THEN Tail(t) ELSE t)

Negativo(t) == t # <<>> /\ t[1] = "-"
SemSinal(t) == IF t # <<>> /\ t[1] \in Sinais THEN Tail(t) ELSE t
ComSinal(t, n) == IF Negativo(t) THEN 0 - n ELSE n

\* the integer an optionally signed digit text denotes, 0 when it is none
InteiroOuZero(s) ==
    LET t == strip(s) IN IF Numeral(t) THEN ComSinal(t, DecVal(SemSinal(t))) ELSE 0

\* C7: normalizeDbKey (extrair_numero_nota_sql), after trimming: a text of 1 to
\* 4 digits gives its integer value; a text of more than 4 digits gives the
\* value of what follows its first 4 characters; the empty text and every text
\* that is not an optionally signed run of digits give 0.
C7_NormalizeDbKey ==
    resultado # <<>> =>
        LET t == strip(valor.txt)
            r == resultado[1]
        IN  /\ (isdigit(t) /\ Len(t) <= 4) => r = DecVal(t)
            /\ (isdigit(t) /\ Len(t) > 4) => r = DecVal(SubSeq(t, 5, Len(t)))
            /\ (t = <<>> \/ ~Numeral(t)) => r = 0

\* a padded text of more than 4 digits lost its 4-character prefix
C7_Witness ==
    /\ resultado = <<1>>
    /\ valor.txt # strip(valor.txt)
    /\ isdigit(strip(valor.txt))
    /\ Len(strip(valor.txt)) > 4

Pontos(c) == {i \in 1..Len(c) : c[i] = "."}
PrimeiraBarra(t) == CHOOSE i \in 1..Len(t) : t[i] = "/" /\ \A j \in 1..(i - 1) : t[j] # "/"
DepoisDaPrimeiraBarra(t) == SubSeq(t, PrimeiraBarra(t) + 1, Len(t))

\* what lies between the first '/' and the next one (or the end of the text)
SegundoSegmento(t) ==
    LET resto == DepoisDaPrimeiraBarra(t)
    IN  IF Contem(resto, "/") THEN SubSeq(resto, 1, PrimeiraBarra(resto) - 1) ELSE resto

\* a decimal text: an optional sign, digits around at most one point, one digit
\* at least
Decimal(t) ==
    LET c == SemSinal(t)
    IN  /\ Cardinality(Pontos(c)) <= 1
        /\ \A i \in 1..Len(c) : c[i] \in Digitos \cup {"."}
        /\ \E i \in 1..Len(c) : c[i] \in Digitos

\* the digits before the point
ParteInteira(t) ==
    LET c == SemSinal(t)
    IN  IF Pontos(c) = {} THEN c ELSE SubSeq(c, 1, (CHOOSE i \in Pontos(c) : TRUE) - 1)

SemBarra(t, r) ==
    IF Decimal(t) THEN r = ComSinal(t, DecVal(ParteInteira(t))) ELSE r = 0

\* C6 as the claim states it: null gives 0; with a '/', everything after the
\* first '/' is parsed as an integer; without one, the decimal value truncated;
\* 0 on any parse failure.
C6_Original ==
    resultado # <<>> =>
        LET t == strip(valor.txt)
            r == resultado[1]
        IN  /\ valor.na => r = 0
            /\ (~valor.na /\ Contem(t, "/")) => r = InteiroOuZero(DepoisDaPrimeiraBarra(t))
            /\ (~valor.na /\ ~Contem(t, "/")) => SemBarra(t, r)

\* C6 amended: normalizeSheetKey (extrair_numero_nota_excel): null gives 0; a
\* trimmed text with a '/' is split on every '/' and its second segment, what
\* lies between the first '/' and the next one or the end, is parsed as an
\* integer; a text without '/' gives its decimal value truncated; every parse
\* failure, the empty text included, gives 0.
C6_NormalizeSheetKey ==
    resultado # <<>> =>
        LET t == strip(valor.txt)
            r == resultado[1]
        IN  /\ valor.na => r = 0
            /\ (~valor.na /\ Contem(t, "/")) => r = InteiroOuZero(SegundoSegmento(t))
            /\ (~valor.na /\ ~Contem(t, "/")) => SemBarra(t, r)
            /\ valor = Txt(<<"0", "0", "1", "/", "4", "5", "3", "2">>) => r = 4532
            /\ valor = Txt(<<"4", "5", "3", "2", ".", "0">>) => r = 4532
            /\ valor = Txt(<<>>) => r = 0

\* a text with two '/' gave the number between them
C6_Witness ==
    /\ resultado = <<2>>
    /\ ~valor.na
    /\ Cardinality({i \in 1..Len(valor.txt) : valor.txt[i] = "/"}) = 2

(***************************************************************************)
(* Properties of one execution and of the session.                         *)
(***************************************************************************)
\* the last execution was a click with a sheet that could be read
Rodou ==
    /\ exec.ent.btn_run
    /\ exec.ent.uploaded_file.presente
    /\ exec.ent.uploaded_file.legivel

\* the sheet as uploaded, and the rows the query answered
Planilha == exec.ent.uploaded_file.df
Registros == exec.df_busca.rows

ChaveDb(d) == extrair_numero_nota_sql(d["NumNfAux_nf"])
ChavePlanilha(s) == extrair_numero_nota_excel(s[N_NF])
CanceladoDb(d) == d["Status_nf"] = 1
CanceladoPlanilha(s) ==
    IF col_receb \in Planilha.cols THEN verificar_cancelamento_excel(s[col_receb]) ELSE FALSE

\* DATA NF is a date d with dt_inicio <= d <= dt_fim
NoPeriodo(s) ==
    /\ s[DATA_NF].valida
    /\ exec.ent.dt_inicio <= s[DATA_NF].dia
    /\ s[DATA_NF].dia <= exec.ent.dt_fim

LinhasQueEntram ==
    IF DATA_NF \in Planilha.cols THEN SelectSeq(Planilha.rows, NoPeriodo) ELSE Planilha.rows

ChavesDe(linhas, Chave(_)) == {Chave(linhas[i]) : i \in 1..Len(linhas)}
ChavesDb == ChavesDe(Registros, ChaveDb)
ChavesPlanilha == ChavesDe(LinhasQueEntram, ChavePlanilha)

Errados == exec.df_status_errado.rows

\* C1 as the claim states it (taken on sheets with all four columns, where
\* nothing else can stop the run): when the fetch returns no records, the run
\* completes, missingFromDatabase is the set of all sheet keys,
\* missingFromSpreadsheet and statusMismatches are empty and the result is
\* stored as ready.
C1_Original ==
    (Rodou /\ ColunasPlanilha \subseteq Planilha.cols /\ empty(exec.df_busca)) =>
        /\ exec.fim = "concluido"
        /\ exec.so_na_planilha = ChavesPlanilha
        /\ exec.so_no_sistema = {}
        /\ Errados = <<>>
        /\ get(session_state, "resultado_pronto")

\* C2 as the claim states it (taken on runs whose fetch returned records): a
\* sheet with 'No NF' completes whichever optional columns are absent; without
\* DATA DE RECEBIMENTO every sheet record is not cancelled, without DATA NF no
\* row is filtered out.
C2_Original ==
    (Rodou /\ N_NF \in Planilha.cols /\ ~empty(exec.df_busca)) =>
        /\ exec.fim = "concluido"
        /\ col_receb \notin Planilha.cols =>
               \A j \in 1..Len(exec.df_excel.rows) : ~exec.df_excel.rows[j]["CANCELADO_PLANILHA"]
        /\ DATA_NF \notin Planilha.cols => Len(exec.df_excel.rows) = Len(Planilha.rows)

\* C4: in a completed run, with A the DB key set and B the sheet key set,
\* so_no_sistema and A \cap B partition A, so_na_planilha and A \cap B partition
\* B, and count_sistema and count_planilha are the sizes of the two sets.
C4_Particao ==
    exec.fim = "concluido" =>
        LET A == ChavesDb
            B == ChavesPlanilha
            AB == A \cap B
        IN  /\ exec.so_no_sistema \cup AB = A
            /\ exec.so_no_sistema \cap AB = {}
            /\ exec.so_na_planilha \cup AB = B
            /\ exec.so_na_planilha \cap AB = {}
            /\ session_state["count_sistema"] = Cardinality(exec.so_no_sistema)
            /\ session_state["count_planilha"] = Cardinality(exec.so_na_planilha)

\* keys on both sides, and a key missing on each side
C4_Witness ==
    /\ exec.fim = "concluido"
    /\ exec.so_no_sistema # {}
    /\ exec.so_na_planilha # {}
    /\ exec.chaves_sistema \cap exec.chaves_planilha # {}

\* the pairs (DB record, sheet record) of one key whose flags differ
Pares(D, S) ==
    {p \in (1..Len(D)) \X (1..Len(S)) :
        /\ ChaveDb(D[p[1]]) = ChavePlanilha(S[p[2]])
        /\ CanceladoDb(D[p[1]]) # CanceladoPlanilha(S[p[2]])}

\* the row of df_status_errado a DB record and a sheet record give
LinhaDoPar(d, s) ==
    [c \in ColunasMergeSql \cup ColunasMergeExcel |->
        CASE c = "CHAVE" -> ChaveDb(d)
          [] c = "CANCELADO_SISTEMA" -> CanceladoDb(d)
          [] c = "CANCELADO_PLANILHA" -> CanceladoPlanilha(s)
          [] c \in {"NumNfAux_nf", "Nome_pes", "ValorTotNota_nf"} -> d[c]
          [] c \in {N_NF, VALOR_NF} -> s[c]]

\* C5: in a completed run df_status_errado holds one row for every pair (DB
\* record d, sheet record s) with the same key and different cancelled flags,
\* and no other row (the full cross product on duplicate keys); the key of
\* every such row is in both key sets and in neither missing set.
C5_StatusMismatches ==
    exec.fim = "concluido" =>
        LET D == Registros
            S == LinhasQueEntram
            E == Errados
            P == Pares(D, S)
            L == [p \in P |-> LinhaDoPar(D[p[1]], S[p[2]])]
            comuns == ChavesDe(D, ChaveDb) \cap ChavesDe(S, ChavePlanilha)
        IN  /\ session_state["df_status_errado"] = exec.df_status_errado
            /\ session_state["count_errado"] = Cardinality(P)
            /\ Len(E) = Cardinality(P)
            /\ \A k \in 1..Len(E) : \E p \in P : E[k] = L[p]
            /\ \A p \in P :
                   Cardinality({k \in 1..Len(E) : E[k] = L[p]})
                       = Cardinality({q \in P : L[q] = L[p]})
            /\ \A k \in 1..Len(E) :
                   /\ E[k]["CHAVE"] \in comuns
                   /\ E[k]["CHAVE"] \notin exec.so_no_sistema \cup exec.so_na_planilha

\* two DB records and two sheet records of one key: four rows
C5_Witness ==
    /\ exec.fim = "concluido"
    /\ Len(Registros) = 2
    /\ Len(LinhasQueEntram) = 2
    /\ Len(Errados) = 4

ResultadoDe(e) ==
    [k \in {"resultado_pronto", "df_status_errado", "df_falta_uau", "df_falta_planilha",
            "count_sistema", "count_planilha", "count_errado"} |->
        CASE k = "resultado_pronto" -> TRUE
          [] k = "df_status_errado" -> e.df_status_errado
          [] k = "df_falta_uau" ->
                 IF e.so_na_planilha = {} THEN DataFrame({})
                 ELSE [cols |-> e.df_excel.cols,
                       rows |-> SelectSeq(e.df_excel.rows,
                                          LAMBDA row : row["CHAVE"] \in e.so_na_planilha)]
          [] k = "df_falta_planilha" ->
                 IF e.so_no_sistema = {} THEN DataFrame({})
                 ELSE [cols |-> e.df_sql.cols,
                       rows |-> SelectSeq(e.df_sql.rows,
                                          LAMBDA row : row["CHAVE"] \in e.so_no_sistema)]
          [] k = "count_sistema" -> Cardinality(e.so_no_sistema)
          [] k = "count_planilha" -> Cardinality(e.so_na_planilha)
          [] k = "count_errado" -> Len(e.df_status_errado.rows)]

\* C3: a click with a sheet that has no 'No NF' column stops before any sheet
\* key is computed or compared: the execution writes no entry of
\* st.session_state and draws no dashboard, whatever the session held.
C3_SemColuna ==
    [][(/\ exec'.ent.btn_run
        /\ exec'.ent.uploaded_file.presente
        /\ exec'.ent.uploaded_file.legivel
        /\ N_NF \notin exec'.ent.uploaded_file.df.cols)
       => /\ exec'.fim = "sem_coluna"
          /\ session_state' = session_state
          /\ ~exec'.dashboard
          /\ exec'.chaves_planilha = {}
          /\ exec'.so_no_sistema = {} /\ exec'.so_na_planilha = {}
          /\ exec'.df_status_errado = DataFrame({})]_vars

\* the run stopped on the missing column while the session held a result
C3_Witness ==
    /\ exec.fim = "sem_coluna"
    /\ get(session_state, "resultado_pronto")
    /\ ~exec.dashboard

ChaveCache(ent) == <<ent.dt_inicio, ent.dt_fim, ent.empresa_id, ent.todas_empresas>>

\* C10: a click (with a file) calls buscar_dados_sql once; the call makes at
\* most one connection attempt; while the cache holds a fresh entry for the
\* four arguments the call makes no attempt and the run uses the stored
\* records, the empty set of a failed fetch included; otherwise what the body
\* returns, failure or not, is stored for these arguments.
C10_Cache ==
    [][(agora' = agora /\ exec'.ent.btn_run /\ exec'.ent.uploaded_file.presente)
       => LET k == ChaveCache(exec'.ent)
              fresco == k \in DOMAIN cache /\ agora - cache[k].em < ttl
          IN  /\ exec'.tentativas <= 1
              /\ fresco => /\ exec'.tentativas = 0
                           /\ exec'.origem = "cache"
                           /\ exec'.df_busca = cache[k].df
                           /\ cache' = cache
              /\ ~fresco => /\ exec'.origem # "cache"
                            /\ k \in DOMAIN cache'
                            /\ cache'[k] = [df |-> exec'.df_busca, em |-> agora]
                            /\ (exec'.origem # "ok" => empty(exec'.df_busca))
              /\ exec'.fim \in {"concluido", "KeyError", "sem_coluna"}
                     => exec'.df_sql = tratar_sql(exec'.df_busca)]_vars

\* a second run inside the window reused the empty result of a failed fetch
C10_Witness ==
    /\ exec.origem = "cache"
    /\ exec.df_busca = DataFrame({})
    /\ exec.fim = "KeyError"

====
